---- MODULE Spec2Model ----
(***************************************************************************)
(* Model of dash_devtools/test_suite.py: the TestSuiteRunner that runs the *)
(* four test types (UIT, Smoke, E2E, UAT), parses the output of the test   *)
(* frameworks and rolls the results up into a TestSuiteResult.             *)
(*                                                                         *)
(* Encodings                                                               *)
(*  - durations are kept in milliseconds (an integer d stands for the      *)
(*    Python float d/1000 seconds), so "x / 1000" of a millisecond value   *)
(*    is d itself and a value read in seconds is multiplied by 1000;       *)
(*  - a captured output is a sequence of lexemes (whitespace separated     *)
(*    pieces of text); a regular expression search is the leftmost match   *)
(*    over adjacent lexemes;                                               *)
(*  - the non-ASCII literals of the source (" > " for the U+203A           *)
(*    delimiter, the Chinese messages) are written in ASCII;               *)
(*  - a Python value that may be an int or None is [type, val].            *)
(***************************************************************************)
EXTENDS Integers, Sequences, FiniteSets, TLC

VARIABLES test_types, setup, pc, idx, call, suite, invocations, raw, parsed, cli

vars == <<test_types, setup, pc, idx, call, suite, invocations, raw, parsed, cli>>

(***************************************************************************)
(* Bounds                                                                  *)
(***************************************************************************)
\* longest list of requested type tags
MaxTypes == 2

(***************************************************************************)
(* Python values                                                           *)
(***************************************************************************)
PyInt(n) == [type |-> "int", val |-> n]

PyNone == [type |-> "NoneType", val |-> 0]

IsInt(v) == v.type = "int"

\* x == 0 on a value that may be None
PyIsZero(v) == v.type = "int" /\ v.val = 0

Last(s) == s[Len(s)]

RECURSIVE Join(_, _)
\* sep.join(parts)
Join(parts, sep) ==
    IF parts = <<>> THEN ""
    ELSE IF Len(parts) = 1 THEN parts[1]
    ELSE parts[1] \o sep \o Join(Tail(parts), sep)

\* Path(p).name, a path being the sequence of its components
PathName(p) == IF p = <<>> THEN "" ELSE Last(p)

Delim == " > "

(***************************************************************************)
(* Data classes                                                            *)
(***************************************************************************)
TestCase(name, status, duration, error, screenshot, api_response) ==
    [name |-> name, status |-> status, duration |-> duration, error |-> error,
     screenshot |-> screenshot, api_response |-> api_response]

TestTypeResult(test_type) ==
    [test_type |-> test_type, passed |-> PyInt(0), failed |-> PyInt(0),
     skipped |-> 0, duration |-> 0, coverage |-> 0, success |-> TRUE,
     error |-> "", test_cases |-> <<>>, not_configured |-> FALSE]

\* results is a dict: the mapping plus the insertion order of its keys
TestSuiteResult ==
    [results |-> <<>>, keys |-> <<>>, total_passed |-> 0, total_failed |-> 0,
     total_duration |-> 0, overall_success |-> TRUE, coverage |-> 0]

(***************************************************************************)
(* Captured text: lexemes and the regular expressions of the parsers       *)
(***************************************************************************)
\* k: kind of lexeme, n: the number it carries, s: the path or titles
Lex(k, n, s) == [k |-> k, n |-> n, s |-> s]

W(k) == Lex(k, 0, <<>>)

Num(n) == Lex("num", n, <<>>)

\* ansi_escape.sub('', output)
StripAnsi(text) == SelectSeq(text, LAMBDA l : l.k # "ansi")

\* positions where the lexemes of kinds ks occur next to each other
Matches(text, ks) ==
    {i \in 1..Len(text) :
        /\ i + Len(ks) - 1 <= Len(text)
        /\ \A j \in 1..Len(ks) : text[i + j - 1].k = ks[j]}

Min(S) == CHOOSE x \in S : \A y \in S : x <= y

\* re.search: the leftmost match, 0 when there is none
Search(text, ks) == IF Matches(text, ks) = {} THEN 0 ELSE Min(Matches(text, ks))

\* re.finditer: all matches of a one-lexeme pattern, in order
FindAll(text, kinds) == SelectSeq(text, LAMBDA l : l.k \in kinds)

(***************************************************************************)
(* Messages                                                                *)
(***************************************************************************)
\* "未設定單元測試框架"
ErrNoUnitFramework == "no unit test framework configured"

\* "未安裝 Playwright"
ErrNoPlaywright == "Playwright not installed"

\* f"未找到 {spec_pattern}"
ErrSpecNotFound(spec_pattern) == "not found " \o spec_pattern

\* "測試超時 (5分鐘)"
ErrTimeoutUIT == "test timed out (5 minutes)"

\* "測試超時"
ErrTimeoutPlaywright == "test timed out"

\* str(e) of the FileNotFoundError of subprocess.run
ErrOSError == "[Errno 2] No such file or directory: 'npx'"

\* str(e) of the AttributeError on a JSON value that is not an object
ErrNotDict == "object has no attribute 'get'"

(***************************************************************************)
(* run_uit: the Vitest, Jest and pytest branches                           *)
(***************************************************************************)
\* dict.get(key, 0): the value, null included, or 0 when the key is absent
JsonGet(v) == IF v.type = "absent" THEN PyInt(0) ELSE v

\* AssertionCases with the path of the file in place of its base name
AssertionCases_WithWholePath(test_file) ==
    [i \in 1..Len(test_file.assertionResults) |->
        LET assertion == test_file.assertionResults[i]
            test_name == Join(Append(assertion.ancestorTitles, assertion.title), Delim)
        IN  TestCase(Join(test_file.name, "/") \o Delim \o test_name,
                     assertion.status, assertion.duration, "", "", "")]

\* one TestCase per assertion of a test file
AssertionCases(test_file) ==
    [i \in 1..Len(test_file.assertionResults) |->
        LET assertion == test_file.assertionResults[i]
            test_name == Join(Append(assertion.ancestorTitles, assertion.title), Delim)
        IN  TestCase(PathName(test_file.name) \o Delim \o test_name,
                     assertion.status, assertion.duration, "", "", "")]

RECURSIVE VitestCases(_)
\* the loop over json_data['testResults']; an entry that is not an object
\* raises AttributeError and leaves the cases appended so far
VitestCases(testResults) ==
    IF testResults = <<>> THEN [cases |-> <<>>, raised |-> FALSE]
    ELSE IF ~ Head(testResults).isdict THEN [cases |-> <<>>, raised |-> TRUE]
    ELSE LET rest == VitestCases(Tail(testResults))
         IN  [cases |-> AssertionCases(Head(testResults)) \o rest.cases,
              raised |-> rest.raised]

\* the fallback of the JSONDecodeError handler: one case per test-file line
VitestFileCases(clean_output) ==
    LET lines == FindAll(clean_output, {"file_ok", "file_fail"})
    IN  [i \in 1..Len(lines) |->
            TestCase(PathName(lines[i].s) \o " (" \o ToString(lines[i].n) \o " tests)",
                     IF lines[i].k = "file_ok" THEN "passed" ELSE "failed",
                     0, "", "", "")]

\* VitestStats with the millisecond duration not divided by 1000
VitestStats_NoMsConversion(result, clean_output) ==
    LET tp == Search(clean_output, <<"Tests", "num", "passed">>)
        p  == Search(clean_output, <<"num", "passed">>)
        f  == Search(clean_output, <<"num", "failed">>)
        c  == Search(clean_output, <<"cov">>)
        dm == Search(clean_output, <<"Duration", "num_ms">>)
        ds == Search(clean_output, <<"Duration", "num_s">>)
    IN  [result EXCEPT
            !.passed   = IF tp # 0 THEN PyInt(clean_output[tp + 1].n)
                         ELSE IF p # 0 THEN PyInt(clean_output[p].n) ELSE @,
            !.failed   = IF f # 0 THEN PyInt(clean_output[f].n) ELSE @,
            !.coverage = IF c # 0 THEN clean_output[c].n ELSE @,
            !.duration = IF dm # 0 THEN clean_output[dm + 1].n * 1000
                         ELSE IF ds # 0 THEN clean_output[ds + 1].n * 1000 ELSE @]

\* the statistics read from the text after the JSON attempt
VitestStats(result, clean_output) ==
    LET tp == Search(clean_output, <<"Tests", "num", "passed">>)
        p  == Search(clean_output, <<"num", "passed">>)
        f  == Search(clean_output, <<"num", "failed">>)
        c  == Search(clean_output, <<"cov">>)
        dm == Search(clean_output, <<"Duration", "num_ms">>)
        ds == Search(clean_output, <<"Duration", "num_s">>)
    IN  [result EXCEPT
            !.passed   = IF tp # 0 THEN PyInt(clean_output[tp + 1].n)
                         ELSE IF p # 0 THEN PyInt(clean_output[p].n) ELSE @,
            !.failed   = IF f # 0 THEN PyInt(clean_output[f].n) ELSE @,
            !.coverage = IF c # 0 THEN clean_output[c].n ELSE @,
            !.duration = IF dm # 0 THEN clean_output[dm + 1].n
                         ELSE IF ds # 0 THEN clean_output[ds + 1].n * 1000 ELSE @]

VitestParse(proc) ==
    LET result == [TestTypeResult("UIT") EXCEPT !.success = (proc.returncode = 0)]
        clean_output == StripAnsi(proc.text)
        json_data == proc.json
    IN  IF json_data.kind = "object" THEN
            LET c == Search(clean_output, <<"cov">>)
                walk == VitestCases(json_data.testResults)
                r1 == [result EXCEPT
                          !.passed = JsonGet(json_data.numPassedTests),
                          !.failed = JsonGet(json_data.numFailedTests),
                          !.coverage = IF c # 0 THEN clean_output[c].n ELSE @,
                          !.test_cases = walk.cases]
            IN  IF walk.raised
                THEN [r1 EXCEPT !.success = FALSE, !.error = ErrNotDict]
                ELSE VitestStats(r1, clean_output)
        ELSE IF json_data.kind = "undecodable" THEN
            VitestStats([result EXCEPT !.test_cases = VitestFileCases(clean_output)],
                        clean_output)
        ELSE VitestStats(result, clean_output)

JestParse(proc) ==
    LET result == [TestTypeResult("UIT") EXCEPT !.success = (proc.returncode = 0)]
        output == proc.text
        p == Search(output, <<"Tests:", "num", "passed">>)
        f == Search(output, <<"num", "failed">>)
    IN  [result EXCEPT
            !.passed = IF p # 0 THEN PyInt(output[p + 1].n) ELSE @,
            !.failed = IF f # 0 THEN PyInt(output[f].n) ELSE @]

PytestParse(proc) ==
    LET result == [TestTypeResult("UIT") EXCEPT !.success = (proc.returncode = 0)]
        output == proc.text
        p == Search(output, <<"num", "passed">>)
        f == Search(output, <<"num", "failed">>)
        c == Search(output, <<"total_cov">>)
    IN  [result EXCEPT
            !.passed = IF p # 0 THEN PyInt(output[p].n) ELSE @,
            !.failed = IF f # 0 THEN PyInt(output[f].n) ELSE @,
            !.coverage = IF c # 0 THEN output[c].n ELSE @]

\* the framework run_uit selects, "" when the project has none
UitFramework(s) ==
    IF s.has_vitest THEN "vitest"
    ELSE IF s.has_jest THEN "jest"
    ELSE IF s.has_pytest THEN "pytest"
    ELSE ""

\* the else branch of run_uit
UitNotConfigured ==
    [TestTypeResult("UIT") EXCEPT
        !.success = TRUE, !.not_configured = TRUE, !.error = ErrNoUnitFramework]

\* run_uit from the return of subprocess.run on
UitResult(framework, outcome) ==
    IF outcome.kind = "timeout"
    THEN [TestTypeResult("UIT") EXCEPT !.success = FALSE, !.error = ErrTimeoutUIT]
    ELSE IF outcome.kind = "oserror"
    THEN [TestTypeResult("UIT") EXCEPT !.success = FALSE, !.error = ErrOSError]
    ELSE IF framework = "vitest" THEN VitestParse(outcome)
    ELSE IF framework = "jest" THEN JestParse(outcome)
    ELSE PytestParse(outcome)

(***************************************************************************)
(* run_playwright_tests and _parse_playwright_suite                        *)
(***************************************************************************)
\* B64Decode with nothing kept of a body that does not decode
B64Decode_DroppingBody(body) == IF body.valid THEN body.text ELSE ""

\* base64.b64decode(body).decode('utf-8'); the except branch keeps the body
B64Decode(body) == IF body.valid THEN body.text ELSE body.raw

\* the loop over the attachments of one attempt
RECURSIVE Attachments(_, _)
Attachments(attachments, acc) ==
    IF attachments = <<>> THEN acc
    ELSE LET att == Head(attachments)
             next == IF att.name = "screenshot" /\ att.path # ""
                     THEN [acc EXCEPT !.screenshot = att.path]
                     ELSE IF att.name = "api-response" /\ att.body.raw # ""
                     THEN [acc EXCEPT !.api_response = B64Decode(att.body)]
                     ELSE acc
         IN  Attachments(Tail(attachments), next)

\* the loop over the recorded attempts of one test
RECURSIVE Attempts(_, _)
Attempts(results_list, acc) ==
    IF results_list = <<>> THEN acc
    ELSE LET res == Head(results_list)
             a1 == [acc EXCEPT !.status = res.status,
                               !.duration = res.duration,
                               !.error = IF res.error # "" THEN res.error ELSE @]
         IN  Attempts(Tail(results_list), Attachments(res.attachments, a1))

\* the cases of the specs of one suite
RECURSIVE SpecCases(_, _)
SpecCases(specs, current_prefix) ==
    IF specs = <<>> THEN <<>>
    ELSE LET spec == Head(specs)
             full_name == IF current_prefix # ""
                          THEN current_prefix \o Delim \o spec.title
                          ELSE spec.title
             cases == [i \in 1..Len(spec.tests) |->
                          Attempts(spec.tests[i].results,
                                   TestCase(full_name, "passed", 0, "", "", ""))]
         IN  cases \o SpecCases(Tail(specs), current_prefix)

RECURSIVE ParsePlaywrightSuite(_, _)
RECURSIVE ParsePlaywrightSuites(_, _)
\* ParsePlaywrightSuite with the prefix of the parent suite not carried down
ParsePlaywrightSuite_WithoutAncestors(suite_node, prefix) ==
    SpecCases(suite_node.specs, suite_node.title)
        \o ParsePlaywrightSuites(suite_node.suites, suite_node.title)

\* ParsePlaywrightSuite with the child suites flattened before the specs
ParsePlaywrightSuite_ChildrenFirst(suite_node, prefix) ==
    LET current_prefix == IF prefix # "" THEN prefix \o Delim \o suite_node.title
                          ELSE suite_node.title
    IN  ParsePlaywrightSuites(suite_node.suites, current_prefix)
            \o SpecCases(suite_node.specs, current_prefix)

\* _parse_playwright_suite: the cases it appends to result.test_cases
ParsePlaywrightSuite(suite_node, prefix) ==
    LET current_prefix == IF prefix # "" THEN prefix \o Delim \o suite_node.title
                          ELSE suite_node.title
    IN  SpecCases(suite_node.specs, current_prefix)
            \o ParsePlaywrightSuites(suite_node.suites, current_prefix)

\* the loop over a list of suites with one prefix
ParsePlaywrightSuites(suites, prefix) ==
    IF suites = <<>> THEN <<>>
    ELSE ParsePlaywrightSuite(Head(suites), prefix)
            \o ParsePlaywrightSuites(Tail(suites), prefix)

\* sum(1 for tc in test_cases if tc.status == status)
CountStatus(test_cases, status) ==
    Cardinality({i \in 1..Len(test_cases) : test_cases[i].status = status})

\* the fallback of the JSONDecodeError handler of run_playwright_tests
PlaywrightTextParse(result, clean_output) ==
    LET p == Search(clean_output, <<"num", "passed">>)
        f == Search(clean_output, <<"num", "failed">>)
        lines == FindAll(clean_output, {"pw_case"})
    IN  [result EXCEPT
            !.passed = IF p # 0 THEN PyInt(clean_output[p].n) ELSE @,
            !.failed = IF f # 0 THEN PyInt(clean_output[f].n) ELSE @,
            !.test_cases = [i \in 1..Len(lines) |->
                               TestCase(Join(lines[i].s, Delim), "passed", 0, "", "", "")]]

\* the duration read from "(<d>s)"
PlaywrightDuration(result, output) ==
    LET d == Search(output, <<"paren_s">>)
    IN  [result EXCEPT !.duration = IF d # 0 THEN output[d].n * 1000 ELSE @]

PlaywrightParse(proc, test_type) ==
    LET result == [TestTypeResult(test_type) EXCEPT !.success = (proc.returncode = 0)]
        output == proc.text
        json_data == proc.json
    IN  IF json_data.kind = "object" THEN
            LET cases == ParsePlaywrightSuites(json_data.suites, "")
            IN  PlaywrightDuration(
                    [result EXCEPT
                        !.test_cases = cases,
                        !.passed = PyInt(CountStatus(cases, "passed")),
                        !.failed = PyInt(CountStatus(cases, "failed")),
                        !.skipped = CountStatus(cases, "skipped")],
                    output)
        ELSE IF json_data.kind = "undecodable" THEN
            PlaywrightDuration(PlaywrightTextParse(result, StripAnsi(output)), output)
        ELSE [result EXCEPT !.success = FALSE, !.error = ErrNotDict]

\* a file name of e2e/ against a glob pattern; "*.e2e.spec.ts" is the only
\* pattern with a wildcard and login.e2e.spec.ts the only name it matches
FnMatch(name, spec_pattern) ==
    IF spec_pattern = "*.e2e.spec.ts" THEN name = "login.e2e.spec.ts"
    ELSE name = spec_pattern

\* project_path.glob('e2e/' + spec_pattern)
Glob(spec_files, spec_pattern) == {f \in spec_files : FnMatch(f, spec_pattern)}

\* the two early returns of run_playwright_tests; "" when the run goes on
PlaywrightMissing(s, spec_pattern) ==
    IF ~ s.has_playwright THEN ErrNoPlaywright
    ELSE IF Glob(s.spec_files, spec_pattern) = {} THEN ErrSpecNotFound(spec_pattern)
    ELSE ""

\* PlaywrightNotConfigured reporting the missing framework as a failure
PlaywrightNotConfigured_Failing(test_type, message) ==
    [TestTypeResult(test_type) EXCEPT
        !.success = FALSE, !.not_configured = TRUE, !.error = message]

PlaywrightNotConfigured(test_type, message) ==
    [TestTypeResult(test_type) EXCEPT
        !.success = TRUE, !.not_configured = TRUE, !.error = message]

\* run_playwright_tests from the return of subprocess.run on
PlaywrightResult(test_type, outcome) ==
    IF outcome.kind = "timeout"
    THEN [TestTypeResult(test_type) EXCEPT !.success = FALSE, !.error = ErrTimeoutPlaywright]
    ELSE IF outcome.kind = "oserror"
    THEN [TestTypeResult(test_type) EXCEPT !.success = FALSE, !.error = ErrOSError]
    ELSE PlaywrightParse(outcome, test_type)

\* E2ERetry without the test of result.error
E2ERetry_IgnoringError(result) == PyIsZero(result.passed)

\* the condition of run_e2e for the second call
E2ERetry(result) == PyIsZero(result.passed) /\ result.error = ""

(***************************************************************************)
(* Inputs: requested lists, project layouts, outcomes of subprocess.run    *)
(***************************************************************************)
Tags == {"UIT", "uit", "Smoke", "E2E", "UAT", "lint"}

Requests == UNION {[1..n -> Tags] : n \in 0..MaxTypes}

\* str.upper() on the tags
Upper(tag) ==
    CASE tag = "uit" -> "UIT"
      [] tag = "Smoke" -> "SMOKE"
      [] tag = "lint" -> "LINT"
      [] OTHER -> tag

\* what detect_test_setup and the glob of e2e/ find in a project
Setup(frameworks, has_playwright, spec_files) ==
    [has_vitest |-> "vitest" \in frameworks, has_jest |-> "jest" \in frameworks,
     has_pytest |-> "pytest" \in frameworks, has_playwright |-> has_playwright,
     spec_files |-> spec_files]

Setups ==
    { Setup({}, FALSE, {}),
      Setup({"jest"}, FALSE, {"smoke.spec.ts"}),
      Setup({"pytest"}, TRUE, {"login.e2e.spec.ts"}),
      Setup({"vitest"}, TRUE, {"smoke.spec.ts", "mes-system.spec.ts", "uat.spec.ts"}),
      Setup({"vitest", "jest", "pytest"}, TRUE,
            {"smoke.spec.ts", "mes-system.spec.ts", "login.e2e.spec.ts"}) }

Timeout == [kind |-> "timeout"]

OSError == [kind |-> "oserror"]

Exit(returncode, json, text) ==
    [kind |-> "exit", returncode |-> returncode, json |-> json, text |-> text]

NoJson == [kind |-> "none"]

Undecodable == [kind |-> "undecodable"]

NotObject == [kind |-> "not_object"]

Absent == [type |-> "absent", val |-> 0]

\* a Vitest JSON report
VitestJson(numPassedTests, numFailedTests, testResults) ==
    [kind |-> "object", numPassedTests |-> numPassedTests,
     numFailedTests |-> numFailedTests, testResults |-> testResults]

TestFile(name, assertionResults) ==
    [isdict |-> TRUE, name |-> name, assertionResults |-> assertionResults]

Assertion(ancestorTitles, title, status, duration) ==
    [ancestorTitles |-> ancestorTitles, title |-> title, status |-> status,
     duration |-> duration]

\* an entry of testResults that is a number
NotADict == [isdict |-> FALSE]

CartFile ==
    TestFile(<<"src", "cart.spec.ts">>,
             << Assertion(<<"Cart">>, "adds", "passed", 3),
                Assertion(<<"Cart", "totals">>, "sums", "passed", 2) >>)

SkipFile ==
    TestFile(<<"src", "user.spec.ts">>,
             << Assertion(<<"User">>, "logs in", "passed", 4),
                Assertion(<<"User">>, "logs out", "skipped", 0) >>)

FailFile ==
    TestFile(<<"api.spec.ts">>, << Assertion(<<>>, "calls", "failed", 7) >>)

\* a file with a test that was skipped by a condition and a test.todo
TodoFile ==
    TestFile(<<"src", "todo.spec.ts">>,
             << Assertion(<<"Later">>, "waits", "pending", 0),
                Assertion(<<"Later">>, "is planned", "todo", 0) >>)

VitestJsons ==
    { NoJson, Undecodable,
      VitestJson(PyInt(0), PyInt(0), <<TodoFile>>),
      VitestJson(PyInt(2), PyInt(0), <<CartFile>>),
      VitestJson(PyInt(12), PyInt(1), <<>>),
      VitestJson(PyInt(2), PyInt(1), <<CartFile, FailFile>>),
      VitestJson(PyInt(1), PyInt(0), <<SkipFile>>),
      VitestJson(PyNone, PyInt(0), <<>>),
      VitestJson(PyInt(1), PyNone, <<>>),
      VitestJson(Absent, Absent, <<>>),
      VitestJson(PyInt(2), PyInt(0), <<CartFile, NotADict>>) }

\* "<n> passed (<d>ms)"
SummaryParen(n, d) == << Num(n), W("passed"), Lex("paren_ms", d, <<>>) >>

\* "<n> passed" and a line "Duration <d>ms"
SummaryDuration(n, d) == << Num(n), W("passed"), W("Duration"), Lex("num_ms", d, <<>>) >>

VitestTexts ==
    { <<>> } \cup
    { SummaryParen(n, d) : n \in {3, 7}, d \in {43, 1500} } \cup
    { SummaryDuration(n, d) : n \in {3, 7}, d \in {43, 1500} } \cup
    {
      << W("Tests"), Num(2), W("passed"), W("Duration"), Lex("num_s", 2, <<>>),
         Lex("cov", 85, <<>>) >>,
      << Num(1), W("failed"), W("ansi"), Num(1), W("ansi"), W("passed"),
         W("Tests"), Num(4), W("passed") >>,
      << Lex("file_ok", 25, <<"src", "app", "warehouse.service.spec.ts">>),
         Lex("file_fail", 2, <<"auth.spec.ts">>),
         W("Tests"), Num(25), W("passed"), Num(2), W("failed") >> }

VitestRuns == {Exit(rc, j, t) : rc \in {0, 1}, j \in VitestJsons, t \in VitestTexts}

UnitTexts ==
    { <<>>,
      SummaryParen(3, 43),
      << W("Tests:"), Num(5), W("passed"), Num(1), W("failed") >>,
      << Num(4), W("passed"), Lex("total_cov", 90, <<>>) >> }

UnitRuns == {Exit(rc, NoJson, t) : rc \in {0, 1}, t \in UnitTexts}

\* a Playwright JSON report
PlaywrightJson(suites) == [kind |-> "object", suites |-> suites]

SuiteNode(title, specs, suites) == [title |-> title, specs |-> specs, suites |-> suites]

SpecNode(title, tests) == [title |-> title, tests |-> tests]

TestNode(results) == [results |-> results]

Attempt(status, duration, error, attachments) ==
    [status |-> status, duration |-> duration, error |-> error,
     attachments |-> attachments]

Screenshot(path) ==
    [name |-> "screenshot", path |-> path, body |-> [raw |-> "", valid |-> TRUE, text |-> ""]]

ApiResponse(body) == [name |-> "api-response", path |-> "", body |-> body]

Passing(title) == SpecNode(title, << TestNode(<< Attempt("passed", 120, "", <<>>) >>) >>)

CheckoutSuite == SuiteNode("Checkout", << Passing("adds item to cart") >>, <<>>)

FailingSuite ==
    SuiteNode("smoke.spec.ts", <<>>,
        << SuiteNode("Smoke",
              << Passing("starts"),
                 SpecNode("health",
                    << TestNode(<< Attempt("failed", 900, "expected 200",
                                           << Screenshot("test-results/health.png") >>) >>) >>) >>,
              <<>>) >>)

AllFailSuite ==
    SuiteNode("mes-system.spec.ts",
        << SpecNode("login",
              << TestNode(<< Attempt("failed", 700, "expected visible", <<>>) >>) >>) >>,
        <<>>)

TimedOutSuite ==
    SuiteNode("smoke.spec.ts",
        << SpecNode("slow", << TestNode(<< Attempt("timedOut", 30000, "", <<>>) >>) >>) >>,
        <<>>)

MixedSuite ==
    SuiteNode("uat.spec.ts",
        << SpecNode("slow", << TestNode(<< Attempt("timedOut", 30000, "Timeout", <<>>) >>) >>),
           SpecNode("later", << TestNode(<< Attempt("skipped", 0, "", <<>>) >>) >>) >>,
        << SuiteNode("Orders",
              << SpecNode("flaky",
                    << TestNode(<< Attempt("failed", 50, "boom", <<>>),
                                   Attempt("passed", 40, "", <<>>) >>) >>) >>,
              <<>>) >>)

\* describe blocks three deep, one of them without a title
DeepSuite ==
    SuiteNode("cart.spec.ts", << Passing("loads") >>,
        << SuiteNode("Cart", <<>>,
              << SuiteNode("", << Passing("anon") >>,
                    << SuiteNode("totals", << Passing("sums"), Passing("rounds") >>,
                                 <<>>) >>) >>) >>)

\* base64 of a JSON body, and a body that does not decode
OkBody == [raw |-> "eyJvayI6dHJ1ZX0=", valid |-> TRUE, text |-> "{ok:true}"]

BadBody == [raw |-> "abc", valid |-> FALSE, text |-> ""]

\* a test that failed with a screenshot and a captured response and passed
\* when retried, a test whose two attempts both left attachments, and a test
\* that never ran
RetrySuite ==
    SuiteNode("orders.spec.ts",
        << SpecNode("retried",
              << TestNode(<< Attempt("failed", 50, "expected 200",
                                     << Screenshot("test-results/retried-1.png"),
                                        ApiResponse(OkBody) >>),
                             Attempt("passed", 40, "", <<>>) >>) >>),
           SpecNode("twice",
              << TestNode(<< Attempt("failed", 30, "first",
                                     << Screenshot("test-results/twice-1.png") >>),
                             Attempt("failed", 35, "second",
                                     << Screenshot("test-results/twice-2.png"),
                                        ApiResponse(BadBody) >>) >>) >>),
           SpecNode("never ran", << TestNode(<<>>) >>) >>,
        <<>>)

PlaywrightJsons ==
    { Undecodable, NotObject,
      PlaywrightJson(<< DeepSuite >>),
      PlaywrightJson(<< RetrySuite >>),
      PlaywrightJson(<<>>),
      PlaywrightJson(<< CheckoutSuite >>),
      PlaywrightJson(<< FailingSuite >>),
      PlaywrightJson(<< AllFailSuite >>),
      PlaywrightJson(<< TimedOutSuite >>),
      PlaywrightJson(<< CheckoutSuite, MixedSuite >>) }

PlaywrightTexts ==
    { <<>>,
      << Num(2), W("passed"), Lex("paren_s", 3, <<>>) >>,
      << Lex("pw_case", 0, <<"Smoke Tests", "SMOKE-01">>),
         Lex("pw_case", 0, <<"Smoke Tests", "SMOKE-02">>),
         Num(1), W("failed"), Num(1), W("passed") >> }

PlaywrightRuns ==
    {Exit(rc, j, t) : rc \in {0, 1}, j \in PlaywrightJsons, t \in PlaywrightTexts}

\* the outcomes run_all is explored with
SuiteVitestRuns ==
    { Exit(0, VitestJson(PyInt(2), PyInt(0), <<CartFile>>), <<>>),
      Exit(1, VitestJson(PyInt(12), PyInt(1), <<>>), <<>>),
      Exit(1, VitestJson(PyInt(12), PyInt(1), <<>>), SummaryDuration(3, 43)),
      Exit(0, VitestJson(PyNone, PyInt(0), <<>>), <<>>),
      Exit(0, NoJson, SummaryParen(3, 43)),
      Exit(1, NoJson, <<>>) }

SuiteUnitRuns ==
    { Exit(0, NoJson, << Num(4), W("passed"), Lex("total_cov", 90, <<>>) >>),
      Exit(1, NoJson, << W("Tests:"), Num(5), W("passed"), Num(1), W("failed") >>) }

SuitePlaywrightRuns ==
    { Exit(0, PlaywrightJson(<< CheckoutSuite >>), <<>>),
      Exit(0, PlaywrightJson(<< DeepSuite, CheckoutSuite >>), <<>>),
      Exit(1, PlaywrightJson(<< FailingSuite >>), <<>>),
      Exit(1, PlaywrightJson(<< AllFailSuite >>), <<>>),
      Exit(1, PlaywrightJson(<< TimedOutSuite >>), <<>>),
      Exit(0, Undecodable, << Num(2), W("passed"), Lex("paren_s", 3, <<>>) >>),
      Exit(0, Undecodable, <<>>),
      Exit(1, NotObject, <<>>) }

Outcomes(runner) ==
    {Timeout, OSError} \cup
        (IF runner = "vitest" THEN SuiteVitestRuns
         ELSE IF runner = "playwright" THEN SuitePlaywrightRuns
         ELSE SuiteUnitRuns)

(***************************************************************************)
(* run_all                                                                 *)
(***************************************************************************)
NoCall == [runner |-> "", test_type |-> "", spec_pattern |-> "", attempt |-> 0]

Call(runner, test_type, spec_pattern, attempt) ==
    [runner |-> runner, test_type |-> test_type, spec_pattern |-> spec_pattern,
     attempt |-> attempt]

NoRaw == [runner |-> "", test_type |-> "", outcome |-> Timeout]

NotParsed == [done |-> FALSE, result |-> TestTypeResult("")]

\* run_all called on a runner directly, outside the command line
NoCli == [mode |-> "", types |-> <<>>, exited |-> FALSE, status |-> 0]

\* suite_result.results[key] = result
Put(results, keys, key, result) ==
    [k \in {keys[i] : i \in 1..Len(keys)} \cup {key} |->
        IF k = key THEN result ELSE results[k]]

\* lines 487-493: record the result of the type at idx; adding a count that
\* is not a number raises TypeError out of run_all
Record(result) ==
    LET key == Upper(test_types[idx])
        s1 == [suite EXCEPT
                  !.results = Put(suite.results, suite.keys, key, result),
                  !.keys = IF \E i \in 1..Len(suite.keys) : suite.keys[i] = key
                           THEN @ ELSE Append(@, key)]
    IN  IF ~ IsInt(result.passed)
        THEN suite' = s1 /\ pc' = "raised" /\ idx' = idx
        ELSE IF ~ IsInt(result.failed)
        THEN /\ suite' = [s1 EXCEPT !.total_passed = @ + result.passed.val]
             /\ pc' = "raised" /\ idx' = idx
        ELSE /\ suite' = [s1 EXCEPT
                             !.total_passed = @ + result.passed.val,
                             !.total_failed = @ + result.failed.val,
                             !.total_duration = @ + result.duration,
                             !.overall_success = IF ~ result.success THEN FALSE ELSE @]
             /\ pc' = "loop" /\ idx' = idx + 1

AtTag(tag) == pc = "loop" /\ idx <= Len(test_types) /\ Upper(test_types[idx]) = tag

\* StartUIT with the process started and not waited for
StartUIT_WithoutWaiting ==
    /\ AtTag("UIT")
    /\ IF UitFramework(setup) = ""
       THEN Record(UitNotConfigured) /\ call' = call
       ELSE /\ call' = Call(UitFramework(setup), "UIT", "", 1)
            /\ Record(TestTypeResult("UIT"))
    /\ UNCHANGED <<test_types, setup, invocations, raw, parsed, cli>>

\* run_uit up to subprocess.run
StartUIT ==
    /\ AtTag("UIT")
    /\ IF UitFramework(setup) = ""
       THEN Record(UitNotConfigured) /\ call' = call
       ELSE /\ call' = Call(UitFramework(setup), "UIT", "", 1)
            /\ pc' = "running"
            /\ UNCHANGED <<idx, suite>>
    /\ UNCHANGED <<test_types, setup, invocations, raw, parsed, cli>>

\* run_playwright_tests up to subprocess.run
StartPlaywright(test_type, spec_pattern, attempt) ==
    IF PlaywrightMissing(setup, spec_pattern) # ""
    THEN /\ Record(PlaywrightNotConfigured(test_type,
                                           PlaywrightMissing(setup, spec_pattern)))
         /\ call' = NoCall
    ELSE /\ call' = Call("playwright", test_type, spec_pattern, attempt)
         /\ pc' = "running"
         /\ UNCHANGED <<idx, suite>>

StartSmoke ==
    /\ AtTag("SMOKE")
    /\ StartPlaywright("Smoke", "smoke.spec.ts", 1)
    /\ UNCHANGED <<test_types, setup, invocations, raw, parsed, cli>>

StartE2E ==
    /\ AtTag("E2E")
    /\ StartPlaywright("E2E", "mes-system.spec.ts", 1)
    /\ UNCHANGED <<test_types, setup, invocations, raw, parsed, cli>>

StartUAT ==
    /\ AtTag("UAT")
    /\ StartPlaywright("UAT", "uat.spec.ts", 1)
    /\ UNCHANGED <<test_types, setup, invocations, raw, parsed, cli>>

\* SkipUnknown with the unknown tag counted as a failure of the suite
SkipUnknown_AsFailure ==
    /\ pc = "loop" /\ idx <= Len(test_types)
    /\ Upper(test_types[idx]) \notin {"UIT", "SMOKE", "E2E", "UAT"}
    /\ idx' = idx + 1
    /\ suite' = [suite EXCEPT !.overall_success = FALSE]
    /\ UNCHANGED <<test_types, setup, pc, call, invocations, raw, parsed, cli>>

\* the else: continue of the loop
SkipUnknown ==
    /\ pc = "loop" /\ idx <= Len(test_types)
    /\ Upper(test_types[idx]) \notin {"UIT", "SMOKE", "E2E", "UAT"}
    /\ idx' = idx + 1
    /\ UNCHANGED <<test_types, setup, pc, call, suite, invocations, raw, parsed, cli>>

Invoked(outcome) ==
    Append(invocations,
           [idx |-> idx, runner |-> call.runner, test_type |-> call.test_type,
            spec_pattern |-> call.spec_pattern, kind |-> outcome.kind,
            outcome |-> outcome])

\* subprocess.run returns, times out or fails in run_uit
CompleteUIT ==
    /\ pc = "running" /\ call.test_type = "UIT"
    /\ \E outcome \in Outcomes(call.runner) :
          /\ invocations' = Invoked(outcome)
          /\ Record(UitResult(call.runner, outcome))
    /\ call' = NoCall
    /\ UNCHANGED <<test_types, setup, raw, parsed, cli>>

\* subprocess.run returns, times out or fails in run_playwright_tests; the
\* first call of run_e2e may be followed by the second
CompletePlaywright ==
    /\ pc = "running" /\ call.runner = "playwright"
    /\ \E outcome \in Outcomes("playwright") :
          LET result == PlaywrightResult(call.test_type, outcome)
          IN  /\ invocations' = Invoked(outcome)
              /\ IF call.test_type = "E2E" /\ call.attempt = 1 /\ E2ERetry(result)
                 THEN StartPlaywright("E2E", "*.e2e.spec.ts", 2)
                 ELSE Record(result) /\ call' = NoCall
    /\ UNCHANGED <<test_types, setup, raw, parsed, cli>>

\* Return with the coverage taken from the entry recorded last
Return_LastEntryCoverage ==
    /\ pc = "loop" /\ idx > Len(test_types)
    /\ suite' = [suite EXCEPT
                    !.coverage = IF suite.keys # <<>>
                                 THEN suite.results[Last(suite.keys)].coverage ELSE @]
    /\ pc' = "done"
    /\ UNCHANGED <<test_types, setup, idx, call, invocations, raw, parsed, cli>>

\* lines 495-499
Return ==
    /\ pc = "loop" /\ idx > Len(test_types)
    /\ suite' = [suite EXCEPT
                    !.coverage = IF \E i \in 1..Len(suite.keys) : suite.keys[i] = "UIT"
                                 THEN suite.results["UIT"].coverage ELSE @]
    /\ pc' = "done"
    /\ UNCHANGED <<test_types, setup, idx, call, invocations, raw, parsed, cli>>

Init ==
    /\ test_types \in Requests
    /\ setup \in Setups
    /\ pc = "loop"
    /\ idx = 1
    /\ call = NoCall
    /\ suite = TestSuiteResult
    /\ invocations = <<>>
    /\ raw = NoRaw
    /\ parsed = NotParsed
    /\ cli = NoCli

Next ==
    \/ StartUIT
    \/ StartSmoke
    \/ StartE2E
    \/ StartUAT
    \/ SkipUnknown
    \/ CompleteUIT
    \/ CompletePlaywright
    \/ Return

Spec == Init /\ [][Next]_vars

\* run_all is sequential code: it takes its next step whenever it has one
FairSpec == Spec /\ WF_vars(Next)

(***************************************************************************)
(* The parsers on their own: one captured outcome, parsed once             *)
(***************************************************************************)
Raw(runner, test_type, outcome) ==
    [runner |-> runner, test_type |-> test_type, outcome |-> outcome]

ParseInputs ==
    {Raw("vitest", "UIT", o) : o \in VitestRuns \cup {Timeout, OSError}} \cup
    {Raw(r, "UIT", o) : r \in {"jest", "pytest"}, o \in UnitRuns \cup {Timeout, OSError}} \cup
    {Raw("playwright", t, o) : t \in {"Smoke", "E2E", "UAT"},
                               o \in PlaywrightRuns \cup {Timeout, OSError}}

Parsed(result) == [done |-> TRUE, result |-> result]

ParseUIT ==
    /\ pc = "parse" /\ ~ parsed.done /\ raw.runner # "playwright"
    /\ parsed' = Parsed(UitResult(raw.runner, raw.outcome))
    /\ UNCHANGED <<test_types, setup, pc, idx, call, suite, invocations, raw, cli>>

ParsePlaywright ==
    /\ pc = "parse" /\ ~ parsed.done /\ raw.runner = "playwright"
    /\ parsed' = Parsed(PlaywrightResult(raw.test_type, raw.outcome))
    /\ UNCHANGED <<test_types, setup, pc, idx, call, suite, invocations, raw, cli>>

InitParse ==
    /\ raw \in ParseInputs
    /\ parsed = NotParsed
    /\ test_types = <<>>
    /\ setup = Setup({}, FALSE, {})
    /\ pc = "parse"
    /\ idx = 1
    /\ call = NoCall
    /\ suite = TestSuiteResult
    /\ invocations = <<>>
    /\ cli = NoCli

NextParse == ParseUIT \/ ParsePlaywright

SpecParse == InitParse /\ [][NextParse]_vars

(***************************************************************************)
(* testing.py: the stand-alone TestRunner                                  *)
(***************************************************************************)
\* "未偵測到測試框架"
MsgNoFramework == "no test framework detected"

\* "測試超時 (5分鐘)"
MsgRunnerTimeout == "test timed out (5 minutes)"

\* f"找不到測試命令: {e}"
MsgCommandNotFound == "test command not found: [Errno 2] No such file or directory: 'npx'"

\* the TestResult data class; output is the captured text or a message
TestResult(framework) ==
    [framework |-> framework, success |-> TRUE, passed |-> PyInt(0),
     failed |-> PyInt(0), skipped |-> PyInt(0), duration |-> 0, coverage |-> 0,
     failed_tests |-> <<>>, output |-> [text |-> <<>>, message |-> ""]]

\* what detect_framework reads of a project: the packages of package.json
\* (none when the file is missing or does not decode), a pytest.ini,
\* pyproject.toml or setup.py, and a tests directory or a test_*.py file
Project(deps, python_config, has_tests) ==
    [deps |-> deps, python_config |-> python_config, has_tests |-> has_tests]

\* detect_framework: the FRAMEWORKS in order, pytest left to the file checks;
\* "" for (None, None)
DetectFramework(project) ==
    IF "vitest" \in project.deps THEN "vitest"
    ELSE IF "jest" \in project.deps THEN "jest"
    ELSE IF project.deps \cap {"@angular-devkit/build-angular", "karma"} # {} THEN "karma"
    ELSE IF project.python_config /\ project.has_tests THEN "pytest"
    ELSE ""

\* _parse_pytest
RunnerParsePytest(result, output) ==
    LET p == Search(output, <<"num", "passed">>)
        f == Search(output, <<"num", "failed">>)
        s == Search(output, <<"num", "skipped">>)
        d == Search(output, <<"in_s">>)
        c == Search(output, <<"total_cov">>)
        failures == FindAll(output, {"FAILED_id"})
    IN  [result EXCEPT
            !.passed = IF p # 0 THEN PyInt(output[p].n) ELSE @,
            !.failed = IF f # 0 THEN PyInt(output[f].n) ELSE @,
            !.skipped = IF s # 0 THEN PyInt(output[s].n) ELSE @,
            !.duration = IF d # 0 THEN output[d].n * 1000 ELSE @,
            !.coverage = IF c # 0 THEN output[c].n ELSE @,
            !.failed_tests = [i \in 1..Len(failures) |-> Join(failures[i].s, "/")]]

\* _parse_jest: the counts of the JSON report, else of the text
RunnerParseJest(result, json_data, output) ==
    IF json_data.kind = "object"
    THEN [result EXCEPT
             !.passed = JsonGet(json_data.numPassedTests),
             !.failed = JsonGet(json_data.numFailedTests),
             !.skipped = JsonGet(json_data.numPendingTests)]
    ELSE LET p == Search(output, <<"Tests:", "num", "passed">>)
             f == Search(output, <<"num", "failed">>)
         IN  [result EXCEPT
                 !.passed = IF p # 0 THEN PyInt(output[p + 1].n) ELSE @,
                 !.failed = IF f # 0 THEN PyInt(output[f].n) ELSE @]

\* _parse_karma
RunnerParseKarma(result, output) ==
    LET e == Search(output, <<"Executed", "num", "of", "num">>)
        f == Search(output, <<"num", "FAILED">>)
    IN  IF e = 0 THEN result
        ELSE IF Search(output, <<"SUCCESS">>) # 0
        THEN [result EXCEPT !.passed = PyInt(output[e + 1].n)]
        ELSE IF f # 0
        THEN [result EXCEPT !.failed = PyInt(output[f].n),
                            !.passed = PyInt(output[e + 1].n - output[f].n)]
        ELSE result

\* _parse_result
RunnerParseResult(result, framework, proc) ==
    IF framework = "pytest" THEN RunnerParsePytest(result, proc.text)
    ELSE IF framework \in {"jest", "vitest"} THEN RunnerParseJest(result, proc.json, proc.text)
    ELSE IF framework = "karma" THEN RunnerParseKarma(result, proc.text)
    ELSE result

\* the early return of TestRunner.run
RunnerNoFramework ==
    [TestResult("unknown") EXCEPT
        !.success = FALSE, !.output = [text |-> <<>>, message |-> MsgNoFramework]]

\* TestRunner.run from the return of subprocess.run on
RunnerResult(framework, outcome) ==
    IF outcome.kind = "timeout"
    THEN [TestResult(framework) EXCEPT
             !.success = FALSE, !.output = [text |-> <<>>, message |-> MsgRunnerTimeout]]
    ELSE IF outcome.kind = "oserror"
    THEN [TestResult(framework) EXCEPT
             !.success = FALSE, !.output = [text |-> <<>>, message |-> MsgCommandNotFound]]
    ELSE RunnerParseResult(
             [TestResult(framework) EXCEPT
                 !.output = [text |-> outcome.text, message |-> ""],
                 !.success = (outcome.returncode = 0)],
             framework, outcome)

\* a Jest or Vitest JSON report as _parse_jest reads it
JestJson(numPassedTests, numFailedTests, numPendingTests) ==
    [kind |-> "object", numPassedTests |-> numPassedTests,
     numFailedTests |-> numFailedTests, numPendingTests |-> numPendingTests]

RunnerProjects ==
    { Project({}, FALSE, FALSE),
      Project({}, TRUE, FALSE),
      Project({}, FALSE, TRUE),
      Project({}, TRUE, TRUE),
      Project({"react"}, FALSE, FALSE),
      Project({"vitest", "jest"}, FALSE, FALSE),
      Project({"jest", "karma"}, TRUE, TRUE),
      Project({"@angular-devkit/build-angular"}, FALSE, FALSE),
      Project({"karma"}, TRUE, TRUE) }

RunnerJsons ==
    { NoJson, Undecodable,
      JestJson(PyInt(3), PyInt(0), PyInt(1)),
      JestJson(PyInt(2), PyInt(1), Absent),
      JestJson(PyNone, PyInt(0), PyInt(0)) }

RunnerJestTexts ==
    { <<>>,
      << W("Tests:"), Num(5), W("passed"), Num(1), W("failed") >>,
      << Num(1), W("failed"), W("Tests:"), Num(4), W("passed") >> }

RunnerPytestTexts ==
    { <<>>,
      << Num(4), W("passed"), Lex("in_s", 2, <<>>) >>,
      << Lex("FAILED_id", 0, <<"tests", "test_a.py::test_x">>),
         Num(2), W("passed"), Num(1), W("failed"), Num(3), W("skipped"),
         Lex("in_s", 1, <<>>), Lex("total_cov", 80, <<>>) >> }

\* "Executed <e> of <t>" followed by SUCCESS or by "(<f> FAILED)"
KarmaLine(e, t, f) ==
    << W("Executed"), Num(e), W("of"), Num(t) >>
        \o (IF f = 0 THEN << W("SUCCESS") >> ELSE << Num(f), W("FAILED") >>)

\* the line Karma prints for a failed test, "<browser> <description> FAILED",
\* of a description that ends in the number n
KarmaFailure(n) == << W("Chrome"), W("shows"), Num(n), W("FAILED") >>

RunnerKarmaTexts ==
    { <<>> } \cup
    { KarmaLine(e, 5, f) : e \in {1, 5}, f \in {0, 1} } \cup
    { KarmaLine(1, 5, 1) \o KarmaLine(5, 5, f) : f \in {1, 2} } \cup
    { KarmaLine(1, 5, 0) \o KarmaLine(5, 5, f) : f \in {0, 2} } \cup
    { KarmaFailure(n) \o KarmaLine(1, 5, 1) \o KarmaLine(5, 5, 1) : n \in {0, 1, 404} }

\* the outcomes of the process of a framework
RunnerOutcomes(framework) ==
    {Timeout, OSError} \cup
        (IF framework \in {"vitest", "jest"}
         THEN {Exit(rc, j, t) : rc \in {0, 1}, j \in RunnerJsons, t \in RunnerJestTexts}
         ELSE IF framework = "pytest"
         THEN {Exit(rc, NoJson, t) : rc \in {0, 1}, t \in RunnerPytestTexts}
         ELSE {Exit(rc, NoJson, t) : rc \in {0, 1}, t \in RunnerKarmaTexts})

\* TestRunner.run on a project where no framework is detected
RunUndetected ==
    /\ pc = "runner" /\ ~ parsed.done
    /\ DetectFramework(setup) = ""
    /\ parsed' = Parsed(RunnerNoFramework)
    /\ UNCHANGED <<test_types, setup, pc, idx, call, suite, invocations, raw, cli>>

\* TestRunner.run on a project with a framework: subprocess.run and the parse
RunDetected ==
    /\ pc = "runner" /\ ~ parsed.done
    /\ DetectFramework(setup) # ""
    /\ \E outcome \in RunnerOutcomes(DetectFramework(setup)) :
          /\ raw' = Raw(DetectFramework(setup), "", outcome)
          /\ invocations' = Append(invocations,
                                   [idx |-> 0, runner |-> DetectFramework(setup),
                                    test_type |-> "", spec_pattern |-> "",
                                    kind |-> outcome.kind, outcome |-> outcome])
          /\ parsed' = Parsed(RunnerResult(DetectFramework(setup), outcome))
    /\ UNCHANGED <<test_types, setup, pc, idx, call, suite, cli>>

InitRunner ==
    /\ setup \in RunnerProjects
    /\ raw = NoRaw
    /\ parsed = NotParsed
    /\ test_types = <<>>
    /\ pc = "runner"
    /\ idx = 1
    /\ call = NoCall
    /\ suite = TestSuiteResult
    /\ invocations = <<>>
    /\ cli = NoCli

NextRunner == RunUndetected \/ RunDetected

SpecRunner == InitRunner /\ [][NextRunner]_vars

(***************************************************************************)
(* cli.py: the test-suite command                                          *)
(***************************************************************************)
\* the output mode the options select: --word before --md before --report,
\* the console otherwise (cli.py lines 747-765)
Modes == {"console", "report", "md", "word"}

\* [t.strip() for t in types.split(',')]: the list always has an element
CliTypes == UNION {[1..n -> {"UIT", "Smoke", "lint"}] : n \in 1..MaxTypes}

\* run_all lines 467-468: the types of a call that passes none
DefaultTypes == <<"UIT", "Smoke", "E2E", "UAT">>

\* the dictionary a mode's function returns, as far as the command reads it
ResultDict(has_success, success) == [has_success |-> has_success, success |-> success]

\* render_test_suite_result lines 599-609, returned by run_test_suite
RenderTestSuiteResult == ResultDict(TRUE, suite.overall_success)

\* run_test_suite_report lines 661-690: 'overall_success', no 'success' key
RunTestSuiteReport == ResultDict(FALSE, FALSE)

\* markdown_report.py lines 305-309
RunAndGenerateMarkdownReport == ResultDict(TRUE, TRUE)

\* word_report.py lines 630-634
RunAndGenerateReport == ResultDict(TRUE, TRUE)

\* result.get('success', True)
Get(result, default) == IF result.has_success THEN result.success ELSE default

ResultOfMode(mode) ==
    IF mode = "word" THEN RunAndGenerateReport
    ELSE IF mode = "md" THEN RunAndGenerateMarkdownReport
    ELSE IF mode = "report" THEN RunTestSuiteReport
    ELSE RenderTestSuiteResult

\* cli.py lines 744-765: the mode's function is called and calls run_all, with
\* the --types list in every mode but --report, whose function passes none
TestSuiteCommand ==
    /\ pc = "cli"
    /\ test_types' = IF cli.mode = "report" THEN DefaultTypes ELSE cli.types
    /\ pc' = "loop"
    /\ UNCHANGED <<setup, idx, call, suite, invocations, raw, parsed, cli>>

\* cli.py lines 767-768
CliExit ==
    /\ pc = "done"
    /\ cli' = [cli EXCEPT !.exited = TRUE,
                          !.status = IF ~ Get(ResultOfMode(cli.mode), TRUE)
                                     THEN 1 ELSE 0]
    /\ pc' = "exited"
    /\ UNCHANGED <<test_types, setup, idx, call, suite, invocations, raw, parsed>>

\* an exception out of run_all is caught nowhere: the interpreter exits with 1
CliTraceback ==
    /\ pc = "raised"
    /\ cli' = [cli EXCEPT !.exited = TRUE, !.status = 1]
    /\ pc' = "crashed"
    /\ UNCHANGED <<test_types, setup, idx, call, suite, invocations, raw, parsed>>

InitCli ==
    /\ cli \in {[mode |-> m, types |-> t, exited |-> FALSE, status |-> 0] :
                   m \in Modes, t \in CliTypes}
    /\ test_types = <<>>
    /\ setup \in Setups
    /\ pc = "cli"
    /\ idx = 1
    /\ call = NoCall
    /\ suite = TestSuiteResult
    /\ invocations = <<>>
    /\ raw = NoRaw
    /\ parsed = NotParsed

NextCli ==
    \/ TestSuiteCommand
    \/ Next
    \/ CliExit
    \/ CliTraceback

SpecCli == InitCli /\ [][NextCli]_vars

(***************************************************************************)
(* Properties                                                              *)
(***************************************************************************)
Known(tag) == Upper(tag) \in {"UIT", "SMOKE", "E2E", "UAT"}

Keys == {suite.keys[i] : i \in 1..Len(suite.keys)}

Ended == pc \in {"done", "raised"}

\* the type at index i has been run and recorded, and nothing was recorded since
JustRecorded(i) == pc \in {"loop", "done"} /\ idx = i + 1 /\ i >= 1 /\ Known(test_types[i])

ResultOf(i) == suite.results[Upper(test_types[i])]

TimedOut(i) ==
    \E n \in 1..Len(invocations) :
        invocations[n].idx = i /\ invocations[n].kind = "timeout"

RECURSIVE SumPassed(_)
SumPassed(keys) ==
    IF keys = <<>> THEN 0 ELSE suite.results[Head(keys)].passed.val + SumPassed(Tail(keys))

RECURSIVE SumFailed(_)
SumFailed(keys) ==
    IF keys = <<>> THEN 0 ELSE suite.results[Head(keys)].failed.val + SumFailed(Tail(keys))

RECURSIVE SumDuration(_)
SumDuration(keys) ==
    IF keys = <<>> THEN 0 ELSE suite.results[Head(keys)].duration + SumDuration(Tail(keys))

\* C1: after run_all, overall_success is false if and only if some entry of
\* results is configured and has success == false.
C1_OverallSuccessIffFailedEntry ==
    pc = "done" =>
        (suite.overall_success = FALSE
            <=> \E k \in Keys : ~ suite.results[k].not_configured
                                /\ ~ suite.results[k].success)

\* C2: after run_all, the three totals are the sums of passed, failed and
\* duration over the entries present in results.
C2_TotalsAreSumsOverResults ==
    pc = "done" =>
        /\ suite.total_passed = SumPassed(suite.keys)
        /\ suite.total_failed = SumFailed(suite.keys)
        /\ suite.total_duration = SumDuration(suite.keys)

\* a step of run_all that records a not-configured result
RecordsNotConfigured ==
    /\ pc \in {"loop", "running"} /\ idx <= Len(test_types)
    /\ Known(test_types[idx])
    /\ idx' = idx + 1
    /\ suite'.results[Upper(test_types[idx])].not_configured

\* C3: a result with not_configured == true has success == true and no
\* passed, failed or skipped test, and the step of run_all that records it
\* changes neither overall_success nor a total.
C3_NotConfiguredIsNeutral ==
    /\ [](\A k \in Keys :
            suite.results[k].not_configured =>
                /\ suite.results[k].success
                /\ suite.results[k].passed = PyInt(0)
                /\ suite.results[k].failed = PyInt(0)
                /\ suite.results[k].skipped = 0)
    /\ [][RecordsNotConfigured =>
            /\ suite'.overall_success = suite.overall_success
            /\ suite'.total_passed = suite.total_passed
            /\ suite'.total_failed = suite.total_failed
            /\ suite'.total_duration = suite.total_duration]_vars

\* a not-configured result recorded after a failing run with passed tests
C3_Witness ==
    /\ Len(suite.keys) = 2
    /\ suite.results[suite.keys[2]].not_configured
    /\ ~ suite.results[suite.keys[1]].not_configured
    /\ suite.total_passed > 0
    /\ ~ suite.overall_success

\* C4: a parsed result with test cases has passed + failed + skipped equal
\* to the number of its test cases.
C4_CountsMatchCases ==
    (parsed.done /\ Len(parsed.result.test_cases) > 0) =>
        parsed.result.passed.val + parsed.result.failed.val + parsed.result.skipped
            = Len(parsed.result.test_cases)

\* C5: once an invocation has timed out or failed to start, run_all ends
\* only after the whole list, with every later known type in results.
C5_LaterTypesStillRun ==
    \A n \in 1..Len(invocations) :
        (Ended /\ invocations[n].kind \in {"timeout", "oserror"}) =>
            /\ pc = "done"
            /\ idx = Len(test_types) + 1
            /\ \A j \in (invocations[n].idx + 1)..Len(test_types) :
                  Known(test_types[j]) => Upper(test_types[j]) \in Keys

\* the statement of C6 for given timeout messages and a given key of Smoke
TimeoutStatement(uitMessage, playwrightMessage, smokeKey) ==
    /\ \A n \in 1..Len(invocations) :
          invocations[n].kind = "timeout" =>
              /\ idx > invocations[n].idx
              /\ \A m \in (n + 1)..Len(invocations) :
                    invocations[m].idx # invocations[n].idx
              /\ ~ suite.overall_success
    /\ \A i \in 1..Len(test_types) :
          (JustRecorded(i) /\ TimedOut(i)) =>
              /\ ~ ResultOf(i).success
              /\ ~ ResultOf(i).not_configured
              /\ ResultOf(i).error = IF Upper(test_types[i]) = "UIT"
                                     THEN uitMessage ELSE playwrightMessage
    /\ ( /\ test_types = <<"UIT", "Smoke">> /\ pc = "done" /\ TimedOut(1)
         /\ \E n \in 1..Len(invocations) :
               /\ invocations[n].idx = 2 /\ invocations[n].kind = "exit"
               /\ invocations[n].outcome.returncode = 0 )
       => /\ suite.keys = <<"UIT", smokeKey>>
          /\ ~ suite.results["UIT"].success
          /\ suite.results["UIT"].error = uitMessage
          /\ suite.results[smokeKey].success
          /\ ~ suite.overall_success

C7_RunAllNeverRaises == pc # "raised"

\* C8: no process was invoked for a type whose recorded result is
\* not-configured.
C8_NotConfiguredNeverRan ==
    \A i \in 1..Len(test_types) :
        (JustRecorded(i) /\ ResultOf(i).not_configured) =>
            \A n \in 1..Len(invocations) : invocations[n].idx # i

\* C9: with a decodable Vitest JSON payload reporting p passed and f failed
\* tests, the UIT result has passed == p and failed == f, and f > 0 makes
\* the result and the suite fail.
C9_JsonCountsAreReported ==
    \A n \in 1..Len(invocations) :
        LET inv == invocations[n]
        IN  ( /\ inv.runner = "vitest" /\ inv.kind = "exit"
              /\ inv.outcome.json.kind = "object"
              /\ IsInt(inv.outcome.json.numPassedTests)
              /\ IsInt(inv.outcome.json.numFailedTests)
              /\ JustRecorded(inv.idx) )
            => /\ ResultOf(inv.idx).passed = inv.outcome.json.numPassedTests
               /\ ResultOf(inv.idx).failed = inv.outcome.json.numFailedTests
               /\ inv.outcome.json.numFailedTests.val > 0 =>
                     (~ ResultOf(inv.idx).success /\ ~ suite.overall_success)

\* a Vitest run that exited 0 without a decodable JSON payload, parsed
FallbackParsed ==
    /\ parsed.done /\ raw.runner = "vitest" /\ raw.outcome.kind = "exit"
    /\ raw.outcome.returncode = 0
    /\ raw.outcome.json.kind \in {"none", "undecodable"}

IsSummaryParen(text) ==
    /\ Len(text) = 3
    /\ text[1].k = "num" /\ text[2].k = "passed" /\ text[3].k = "paren_ms"

IsSummaryDuration(text) ==
    /\ Len(text) = 4
    /\ text[1].k = "num" /\ text[2].k = "passed"
    /\ text[3].k = "Duration" /\ text[4].k = "num_ms"

\* C10 as stated: "<n> passed (<d>ms)" gives passed == n and a duration of
\* d milliseconds.
C10_ParenDurationAsStated ==
    (FallbackParsed /\ IsSummaryParen(raw.outcome.text)) =>
        /\ parsed.result.passed = PyInt(raw.outcome.text[1].n)
        /\ parsed.result.duration = raw.outcome.text[3].n

\* C10: "<n> passed (<d>ms)" gives passed == n and leaves the duration 0;
\* the duration is read from a "Duration <d>ms" line, which gives d
\* milliseconds.
C10_FallbackSummary ==
    /\ (FallbackParsed /\ IsSummaryParen(raw.outcome.text)) =>
          /\ parsed.result.passed = PyInt(raw.outcome.text[1].n)
          /\ parsed.result.duration = 0
    /\ (FallbackParsed /\ IsSummaryDuration(raw.outcome.text)) =>
          /\ parsed.result.passed = PyInt(raw.outcome.text[1].n)
          /\ parsed.result.duration = raw.outcome.text[4].n

\* "3 passed" with "Duration 43ms", parsed without JSON
C10_Witness ==
    /\ FallbackParsed
    /\ raw.outcome.text = SummaryDuration(3, 43)
    /\ parsed.result.duration = 43

\* a Playwright run that ended with a JSON report, parsed
ReportParsed ==
    /\ parsed.done /\ raw.runner = "playwright" /\ raw.outcome.kind = "exit"
    /\ raw.outcome.json.kind = "object"

RECURSIVE LeavesOfSpecs(_, _)
\* the tests of the specs of one suite, each with the titles above it
LeavesOfSpecs(specs, ancestors) ==
    IF specs = <<>> THEN <<>>
    ELSE [i \in 1..Len(Head(specs).tests) |->
             [path |-> Append(ancestors, Head(specs).title),
              results |-> Head(specs).tests[i].results]]
         \o LeavesOfSpecs(Tail(specs), ancestors)

RECURSIVE Leaves(_, _)
\* the tests of a list of suites in tree order, each with the titles of its
\* ancestor suites from the root down followed by the title of its spec
Leaves(suites, ancestors) ==
    IF suites = <<>> THEN <<>>
    ELSE LET titles == Append(ancestors, Head(suites).title)
         IN  LeavesOfSpecs(Head(suites).specs, titles)
                 \o Leaves(Head(suites).suites, titles)
                 \o Leaves(Tail(suites), ancestors)

\* C11: every test of a Playwright suite tree gives one case whose name is
\* the titles of its ancestor suites from the root down and the title of its
\* spec, joined by the delimiter; suite "Checkout" with spec "adds item to
\* cart" gives exactly one case, named "Checkout > adds item to cart", passed.
C11_NameIsAncestorPath ==
    ReportParsed =>
        LET leaves == Leaves(raw.outcome.json.suites, <<>>)
            cases == parsed.result.test_cases
        IN  /\ Len(cases) = Len(leaves)
            /\ \A i \in 1..Len(leaves) : cases[i].name = Join(leaves[i].path, Delim)
            /\ raw.outcome.json.suites = << CheckoutSuite >> =>
                  /\ Len(cases) = 1
                  /\ cases[1].name = "Checkout > adds item to cart"
                  /\ cases[1].status = "passed"

\* the report of DeepSuite parsed: a spec four titles below the root
C11_Witness ==
    /\ ReportParsed
    /\ raw.outcome.json.suites = << DeepSuite >>
    /\ Len(parsed.result.test_cases) = 4
    /\ parsed.result.test_cases[3].name = "cart.spec.ts > Cart >  > totals > sums"

\* the screenshot and the response that one attempt alone gives a case
AttemptAttachments(res) == Attachments(res.attachments, TestCase("", "", 0, "", "", ""))

\* C12: the case of a Playwright test with recorded attempts has the status,
\* the duration, the error, the screenshot and the api_response of its last
\* attempt, and nothing of an earlier attempt.
C12_LastAttemptOnly ==
    ReportParsed =>
        LET leaves == Leaves(raw.outcome.json.suites, <<>>)
            cases == parsed.result.test_cases
        IN  \A i \in 1..Len(leaves) :
                leaves[i].results # <<>> =>
                    LET last == Last(leaves[i].results)
                    IN  /\ cases[i].status = last.status
                        /\ cases[i].duration = last.duration
                        /\ cases[i].error = last.error
                        /\ cases[i].screenshot = AttemptAttachments(last).screenshot
                        /\ cases[i].api_response = AttemptAttachments(last).api_response

\* the list of requested tags names the unit tests
Requested(tag) == \E i \in 1..Len(test_types) : Upper(test_types[i]) = tag

\* C13: the coverage of the suite returned by run_all is the coverage of the
\* UIT entry of results when UIT was requested and 0 otherwise, and it is 0
\* until run_all returns.
C13_CoverageFromUIT ==
    /\ pc = "done" =>
          suite.coverage = IF Requested("UIT") THEN suite.results["UIT"].coverage ELSE 0
    /\ pc # "done" => suite.coverage = 0

\* run_all returned after unit tests that reported 90% and a Playwright type
C13_Witness ==
    /\ pc = "done"
    /\ suite.keys = <<"UIT", "SMOKE">>
    /\ suite.results["UIT"].coverage = 90
    /\ suite.coverage = 90

\* a step of run_all that starts an invocation
Starts == call' # NoCall /\ call' # call

\* C14: at most one invocation is in flight: a runner is invoked only when
\* none is in flight or in the step that completes the one in flight, the
\* invocation in flight belongs to the requested type run_all is at, the
\* invocations completed so far belong to that type or to earlier ones, and
\* run_all goes through the requested list one position at a time.
C14_OneInvocationAtATime ==
    /\ [](pc = "running" <=> call # NoCall)
    /\ [](call # NoCall =>
            /\ idx <= Len(test_types)
            /\ Upper(call.test_type) = Upper(test_types[idx]))
    /\ [](\A n \in 1..Len(invocations) :
            /\ invocations[n].idx <= idx
            /\ pc = "loop" => invocations[n].idx < idx
            /\ \A m \in n..Len(invocations) : invocations[n].idx <= invocations[m].idx)
    /\ [][Starts => \/ call = NoCall /\ invocations' = invocations
                    \/ /\ call # NoCall /\ Len(invocations') = Len(invocations) + 1
                       /\ Last(invocations').runner = call.runner
                       /\ Last(invocations').spec_pattern = call.spec_pattern]_vars
    /\ [][idx' = idx \/ (idx' = idx + 1 /\ call' = NoCall)]_vars

\* three invocations, one after the other, for two requested types
C14_Witness ==
    /\ pc = "done"
    /\ Len(invocations) = 3
    /\ invocations[1].idx = 1
    /\ invocations[3].idx = 2

\* a run that ended with neither a decodable JSON payload nor a line that a
\* parser reads (a count, a duration, a coverage or a case line), parsed
NothingParsed ==
    /\ parsed.done /\ raw.outcome.kind = "exit"
    /\ raw.outcome.json.kind \in {"none", "undecodable"}
    /\ raw.outcome.text = <<>>

\* C15: a run that exits non-zero with no usable structured or textual
\* summary gives a result with success == false and a non-empty error.
C15_NonZeroExitHasError ==
    (NothingParsed /\ raw.outcome.returncode # 0) =>
        /\ ~ parsed.result.success
        /\ parsed.result.error # ""

\* the invocation whose outcome became the recorded result of the type at i
LastInvocation(i, n) ==
    /\ n \in 1..Len(invocations) /\ invocations[n].idx = i
    /\ \A m \in (n + 1)..Len(invocations) : invocations[m].idx # i

\* an outcome with no JSON payload and no line that a parser reads
Unparseable(outcome) ==
    /\ outcome.kind = "exit"
    /\ outcome.json.kind \in {"none", "undecodable"}
    /\ outcome.text = <<>>

\* C16: a configured type whose output could not be parsed at all is recorded
\* in results without cases, with success == false and a non-empty error,
\* whatever the exit code.
C16_UnparseableIsFlagged ==
    \A i \in 1..Len(test_types) : \A n \in 1..Len(invocations) :
        ( /\ JustRecorded(i) /\ LastInvocation(i, n)
          /\ Unparseable(invocations[n].outcome)
          /\ ~ ResultOf(i).not_configured )
        => /\ ResultOf(i).test_cases = <<>>
           /\ ~ ResultOf(i).success
           /\ ResultOf(i).error # ""

\* a JSON payload that does not decode
UndecodablePayload(outcome) == outcome.json.kind = "undecodable"

\* a JSON payload that decodes to something of another shape than a report:
\* not an object, or an object whose testResults holds a non-object
WronglyShapedPayload(outcome) ==
    \/ outcome.json.kind = "not_object"
    \/ /\ outcome.json.kind = "object" /\ raw.runner = "vitest"
       /\ \E k \in 1..Len(outcome.json.testResults) :
             ~ outcome.json.testResults[k].isdict

\* C17: with exit code 0, a JSON payload that is undecodable or wrongly
\* shaped leaves the result with success == true and an empty error.
C17_BadPayloadIsNoFailure ==
    ( /\ parsed.done /\ raw.outcome.kind = "exit" /\ raw.outcome.returncode = 0
      /\ raw.runner \in {"vitest", "playwright"}
      /\ (UndecodablePayload(raw.outcome) \/ WronglyShapedPayload(raw.outcome)) )
    => /\ parsed.result.success
       /\ parsed.result.error = ""

\* C18: every case of a parsed result has status passed, failed or skipped.
C18_StatusIsNormalised ==
    parsed.done =>
        \A i \in 1..Len(parsed.result.test_cases) :
            parsed.result.test_cases[i].status \in {"passed", "failed", "skipped"}

\* the tags as the default list of run_all spells them
DefaultTags == {"UIT", "Smoke", "E2E", "UAT"}

\* C19: for a request of tags spelled as in the default list, results
\* returned by run_all holds the entries of the requested types under the
\* tags as requested, in the order of execution, and an entry of a type that
\* is not configured has passed == 0, failed == 0 and success == true.
C19_ResultsKeyedAsRequested ==
    (pc = "done" /\ \A i \in 1..Len(test_types) : test_types[i] \in DefaultTags) =>
        /\ suite.keys = test_types
        /\ \A k \in Keys :
              suite.results[k].not_configured =>
                  /\ suite.results[k].passed = PyInt(0)
                  /\ suite.results[k].failed = PyInt(0)
                  /\ suite.results[k].success

RECURSIVE SumCaseDurations(_)
SumCaseDurations(cases) ==
    IF cases = <<>> THEN 0 ELSE Head(cases).duration + SumCaseDurations(Tail(cases))

\* the captured text has a line that the parser of the runner reads a
\* duration from
HasSummaryDuration(runner, text) ==
    IF runner = "playwright" THEN Search(text, <<"paren_s">>) # 0
    ELSE \/ Search(StripAnsi(text), <<"Duration", "num_ms">>) # 0
         \/ Search(StripAnsi(text), <<"Duration", "num_s">>) # 0

\* C20: a parsed result with test cases has a duration equal to the sum of
\* the durations of its cases unless a duration was read from a summary
\* line, and cases with positive durations never leave it 0.
C20_DurationIsSumOfCases ==
    (parsed.done /\ raw.outcome.kind = "exit" /\ parsed.result.test_cases # <<>>) =>
        /\ ~ HasSummaryDuration(raw.runner, raw.outcome.text) =>
              parsed.result.duration = SumCaseDurations(parsed.result.test_cases)
        /\ SumCaseDurations(parsed.result.test_cases) > 0 => parsed.result.duration # 0

\* TestRunner.run has returned for a project without a detected framework
RanUndetected == pc = "runner" /\ parsed.done /\ DetectFramework(setup) = ""

\* C21: TestRunner.run on a project for which no framework is detected
\* returns a result with success == true and invokes no process.
C21_NoFrameworkIsNoFailure ==
    RanUndetected => (parsed.result.success /\ invocations = <<>>)

\* a Vitest run that ended without a decodable JSON payload, parsed
NoPayloadParsed ==
    /\ parsed.done /\ raw.runner = "vitest" /\ raw.outcome.kind = "exit"
    /\ raw.outcome.json.kind \in {"none", "undecodable"}

\* the test-file lines of a captured text
FileLines(text) == FindAll(StripAnsi(text), {"file_ok", "file_fail"})

\* C22: without a decodable JSON payload, none found or not decoding, the
\* UIT result has one pseudo-case per test-file line, passed for a line
\* marked as passing and failed for a line marked as failing.
C22_PseudoCasePerFileLine ==
    NoPayloadParsed =>
        LET lines == FileLines(raw.outcome.text)
            cases == parsed.result.test_cases
        IN  /\ Len(cases) = Len(lines)
            /\ \A i \in 1..Len(lines) :
                  cases[i].status = IF lines[i].k = "file_ok" THEN "passed" ELSE "failed"

\* a Vitest run that ended with a JSON report of test files, parsed
VitestReportParsed ==
    /\ parsed.done /\ raw.runner = "vitest" /\ raw.outcome.kind = "exit"
    /\ raw.outcome.json.kind = "object"
    /\ \A k \in 1..Len(raw.outcome.json.testResults) :
          raw.outcome.json.testResults[k].isdict

RECURSIVE ReportedAssertions(_)
\* the assertions of a report in order, each with the path of its file
ReportedAssertions(testResults) ==
    IF testResults = <<>> THEN <<>>
    ELSE [i \in 1..Len(Head(testResults).assertionResults) |->
             [file |-> Head(testResults).name,
              assertion |-> Head(testResults).assertionResults[i]]]
         \o ReportedAssertions(Tail(testResults))

\* the names of the cases of a report, given the titles that come before
\* the ancestor titles of an assertion of a file
NamesAre(Leading(_)) ==
    VitestReportParsed =>
        LET reported == ReportedAssertions(raw.outcome.json.testResults)
            cases == parsed.result.test_cases
        IN  /\ Len(cases) = Len(reported)
            /\ \A i \in 1..Len(reported) :
                  cases[i].name =
                      Join(Leading(reported[i].file)
                               \o reported[i].assertion.ancestorTitles
                               \o << reported[i].assertion.title >>, Delim)

NoTitle(file) == <<>>

BaseName(file) == << PathName(file) >>

\* C23 as stated: the name of the case of an assertion is its ancestorTitles
\* and its title joined by the delimiter, with nothing else.
C23_NameAsStated == NamesAre(NoTitle)

\* C23: the name of the case of an assertion is the base name of its test
\* file, its ancestorTitles and its title, joined by the delimiter.
C23_NameHasFilePrefix == NamesAre(BaseName)

\* the report of src/cart.spec.ts parsed: "sums" under Cart, totals
C23_Witness ==
    /\ VitestReportParsed
    /\ raw.outcome.json.testResults = << CartFile >>
    /\ parsed.result.test_cases[2].name = "cart.spec.ts > Cart > totals > sums"

RECURSIVE CountTests(_)
\* the number of test entries of the specs of a list of suites and below
CountTests(suites) ==
    IF suites = <<>> THEN 0
    ELSE LET specs == Head(suites).specs
             RECURSIVE InSpecs(_)
             InSpecs(k) == IF k = 0 THEN 0 ELSE Len(specs[k].tests) + InSpecs(k - 1)
         IN  InSpecs(Len(specs)) + CountTests(Head(suites).suites)
                 + CountTests(Tail(suites))

\* the result recorded for the type at i is the parse of the JSON report of
\* invocation n
FlattenedFrom(i, n) ==
    /\ JustRecorded(i) /\ LastInvocation(i, n)
    /\ invocations[n].runner = "playwright" /\ invocations[n].kind = "exit"
    /\ invocations[n].outcome.json.kind = "object"
    /\ ~ ResultOf(i).not_configured

RECURSIVE ResponseBodies(_)
\* the non-empty bodies of the api-response attachments of the attempts of
\* one test, in order
ResponseBodies(results_list) ==
    IF results_list = <<>> THEN <<>>
    ELSE LET atts == SelectSeq(Head(results_list).attachments,
                               LAMBDA att : att.name = "api-response" /\ att.body.raw # "")
         IN  [k \in 1..Len(atts) |-> atts[k].body] \o ResponseBodies(Tail(results_list))

\* C25: a test whose api-response body does not decode still gives its case,
\* with the raw encoded body as api_response, and every test of the tree
\* gives its case.
C25_UndecodableBodyKeptRaw ==
    ReportParsed =>
        LET leaves == Leaves(raw.outcome.json.suites, <<>>)
            cases == parsed.result.test_cases
        IN  /\ Len(cases) = Len(leaves)
            /\ \A i \in 1..Len(leaves) :
                  LET bodies == ResponseBodies(leaves[i].results)
                  IN  (bodies # <<>> /\ ~ Last(bodies).valid) =>
                          cases[i].api_response = Last(bodies).raw

\* the report of RetrySuite parsed: "twice" has a body that does not decode
C25_Witness ==
    /\ ReportParsed
    /\ raw.outcome.json.suites = << RetrySuite >>
    /\ Len(parsed.result.test_cases) = 3
    /\ parsed.result.test_cases[2].api_response = "abc"
    /\ parsed.result.test_cases[1].api_response = "{ok:true}"

\* a count that is a number is not negative
NonNegative(count) == IsInt(count) => count.val >= 0

\* C26: passed, failed and skipped of a result of TestRunner.run are never
\* negative; in particular the Karma parser, with passed = executed - failed,
\* never gives a negative passed.
C26_CountsNonNegative ==
    (pc = "runner" /\ parsed.done) =>
        /\ NonNegative(parsed.result.passed)
        /\ NonNegative(parsed.result.failed)
        /\ NonNegative(parsed.result.skipped)

\* the project has Playwright and a file for the second pattern of run_e2e,
\* and none for the first
OnlySecondPattern ==
    /\ setup.has_playwright
    /\ "mes-system.spec.ts" \notin setup.spec_files
    /\ \E f \in setup.spec_files : FnMatch(f, "*.e2e.spec.ts")

\* C27: with Playwright, no e2e/mes-system.spec.ts and a file matching
\* e2e/*.e2e.spec.ts, run_e2e runs the second pattern and the E2E result
\* recorded is not a not-configured one.
C27_SecondPatternIsRun ==
    \A i \in 1..Len(test_types) :
        (JustRecorded(i) /\ Upper(test_types[i]) = "E2E" /\ OnlySecondPattern) =>
            /\ ~ ResultOf(i).not_configured
            /\ \E n \in 1..Len(invocations) :
                  invocations[n].idx = i /\ invocations[n].spec_pattern = "*.e2e.spec.ts"

\* invocation n is the run of the first pattern of run_e2e and it ended with
\* a non-zero exit, no passed test and no exception
FirstPatternFailed(n) ==
    /\ invocations[n].test_type = "E2E"
    /\ invocations[n].spec_pattern = "mes-system.spec.ts"
    /\ invocations[n].kind = "exit"
    /\ invocations[n].outcome.returncode # 0
    /\ PyIsZero(PlaywrightResult("E2E", invocations[n].outcome).passed)
    /\ PlaywrightResult("E2E", invocations[n].outcome).error = ""

\* C28: when the run of the first pattern of run_e2e ends with a non-zero
\* exit and no passed test, the entry recorded for E2E has success == false
\* and not_configured == false, and overall_success is false, whatever a
\* second-pattern attempt gives.
C28_FirstFailureIsKept ==
    \A n \in 1..Len(invocations) :
        (FirstPatternFailed(n) /\ JustRecorded(invocations[n].idx)) =>
            /\ ~ ResultOf(invocations[n].idx).success
            /\ ~ ResultOf(invocations[n].idx).not_configured
            /\ ~ suite.overall_success

\* the test_type of the result that the runner of an upper-cased tag builds
TypeOfTag(tag) == IF tag = "SMOKE" THEN "Smoke" ELSE tag

\* C29: run_all steps over a requested tag that is none of UIT, Smoke, E2E
\* and UAT in any letter case, invoking nothing and leaving results, the
\* totals and overall_success as they are; a known tag in any letter case
\* runs its type and the result is stored under the upper-cased tag.
C29_UnknownSkippedKnownUppercased ==
    /\ [][(pc = "loop" /\ idx <= Len(test_types) /\ ~ Known(test_types[idx])) =>
            /\ suite' = suite
            /\ invocations' = invocations
            /\ call' = NoCall
            /\ pc' = "loop" /\ idx' = idx + 1]_vars
    /\ [](\A n \in 1..Len(invocations) : Known(test_types[invocations[n].idx]))
    /\ [](\A i \in 1..Len(test_types) :
            JustRecorded(i) =>
                /\ Upper(test_types[i]) \in Keys
                /\ ResultOf(i).test_type = TypeOfTag(Upper(test_types[i])))
    /\ [](pc = "done" =>
            Keys = {Upper(test_types[i]) : i \in {j \in 1..Len(test_types) :
                                                    Known(test_types[j])}})

\* ["lint", "uit"] returned: nothing for lint, the unit tests run for uit
C29_Witness ==
    /\ pc = "done" /\ test_types = <<"lint", "uit">>
    /\ suite.keys = <<"UIT">>
    /\ Len(invocations) = 1
    /\ invocations[1].idx = 2

\* C30: in every output mode the test-suite command exits with a non-zero
\* status exactly when the suite's overall_success is false, and the types it
\* ran are the types given by --types
C30_ExitStatusFollowsSuite ==
    (pc = "exited") =>
        /\ (cli.status # 0) <=> ~ suite.overall_success
        /\ test_types = cli.types
====
